---- MODULE Spec2Model ----
(***************************************************************************)
(* Model of subup's dependency-graph diff (src/src/graph.rs): diff_resolve *)
(* compares two `cargo metadata` snapshots and returns the dependency      *)
(* trails that differ plus the paths of the affected workspace members;    *)
(* and of the steps of SubUp::run (src/src/bin/subup.rs) with the external *)
(* commands and prompts they issue.                                        *)
(*                                                                         *)
(* Strings are modelled by what the code reads of them:                    *)
(*   - a package id "NAME VERSION (SOURCE)" is the sequence of its three   *)
(*     space separated parts, <<name, version, source>>;                   *)
(*   - a stripped id "NAME VERSION" is the sequence <<name, version>>;     *)
(*   - a member url is <<first 11 characters, rest>>.                      *)
(* A node's dependency Vec is modelled as a set (cargo lists a dependency  *)
(* once); the order of the Vec is an arbitrary enumeration of the set.     *)
(***************************************************************************)
EXTENDS Naturals, Sequences, FiniteSets

VARIABLES
  first,                \* diff_resolve argument: Metadata before the update
  second,               \* diff_resolve argument: Metadata after the update
  modified_members,     \* diff_resolve argument: set of member names
  pc,                   \* position in diff_resolve
  root_ids,             \* root ids the `for id in &root_ids` loop has not visited yet
  modified_member_ids,  \* local of diff_resolve
  stack,                \* active diff() frames, outermost first
  trail,                \* the `trail` Vec shared by the diff() frames
  result,               \* the `result` Vec of trails
  changed_paths,        \* the `changed_paths` HashSet
  last_id,              \* `id` argument of the most recent diff() call
  is_interactive,       \* Cli::is_interactive
  matches,              \* Cli::matches: the command line options
  commit_title,         \* SubUp::commit_title
  step,                 \* the step SubUp::run is about to make, or how it ended
  io,                   \* the commands run and the prompts shown, with their outcome
  earlier,              \* what diff_resolve returned for (second, first), if called
  runner,               \* a Runner: its fields wants_success and inherit_stdout
  calls                 \* the calls of run, capture_stdout and status on the Runner

\* The variables of diff_resolve.
graph_vars == <<first, second, modified_members, pc, root_ids, modified_member_ids,
                stack, trail, result, changed_paths, last_id>>

\* The variables of SubUp::run.
run_vars == <<is_interactive, matches, commit_title, step, io>>

\* The variables of a second call of diff_resolve.
call_vars == <<earlier>>

\* The variables of a Runner and its user.
runner_vars == <<runner, calls>>

vars == <<graph_vars, run_vars, call_vars, runner_vars>>

-----------------------------------------------------------------------------
(* Bounds of the model.                                                    *)

\* Largest number of dependency edges in one snapshot.
MaxEdges == 2

\* Largest number of nested diff() frames (the thread's stack).
MaxDepth == 5

\* Largest number of dependency edges in an old snapshot with several
\* dependency paths to one node.
MaxDeepEdges == 3

-----------------------------------------------------------------------------
(* The universe the snapshots are drawn from.                              *)

A == <<"a", "1", "(path+file:///w/a-1)">>
B == <<"b", "1", "(path+file:///w/b-1)">>
C == <<"c", "1", "(registry)">>
D == <<"c", "2", "(registry)">>

Ids == {A, B, C, D}

\* Ids of the packages that may be workspace members (path sources).
MemberIds == {A, B}

NoId == <<>>

\* Largest number of calls made on one Runner.
MaxCalls == 3

\* Runner::new(program, args), runner.rs lines 25-33.
NewRunner == [wants_success |-> TRUE, inherit_stdout |-> TRUE]

\* No earlier call of diff_resolve was made.
NoCall == [called |-> FALSE, result |-> <<>>, changed_paths |-> {}]

\* A second workspace member named "a", at another version and path.
A2 == <<"a", "2", "(path+file:///w/a-2)">>

\* The ids of the workspaces that may have two members of one name.
AnyIds == {A, A2, B, C}

\* A name that no workspace member has.
NoMember == "z"

-----------------------------------------------------------------------------
(* Strings.                                                                *)

\* graph.rs strip_source: splitn(3, ' ') and format!("{} {}", parts[0], parts[1]).
strip_source(id) == <<id[1], id[2]>>

\* trail[0].split(' ').next().unwrap(): the first space separated part.
first_word(s) == s[1]

PathPrefix == "path+file:/"

\* member.url.starts_with("path+file:/")
starts_with_path(url) == url[1] = PathPrefix

\* member.url[11..]
url_path(url) == url[2]

-----------------------------------------------------------------------------
(* cargo_metadata values.                                                  *)

WorkspaceMember(id) ==
  [name |-> id[1], version |-> id[2],
   url |-> <<PathPrefix, "/w/" \o id[1] \o "-" \o id[2]>>]

Package(id) == [name |-> id[1], version |-> id[2], id |-> id]

Node(id, deps) == [id |-> id, dependencies |-> deps]

\* The ids reachable from the set S over the edges E.
RECURSIVE Reach(_, _)
Reach(S, E) ==
  LET T == S \cup {e[2] : e \in {x \in E : x[1] \in S}}
  IN IF T = S THEN S ELSE Reach(T, E)

Edges == {e \in Ids \X Ids : e[1] # e[2]}

EdgeSets == {E \in SUBSET Edges : Cardinality(E) <= MaxEdges}

\* An enumeration of a set (the order of a Vec or of a HashSet iteration).
Perms(S) ==
  {p \in [1..Cardinality(S) -> S] :
     \A i, j \in 1..Cardinality(S) : i # j => p[i] # p[j]}

\* What `cargo metadata` prints for a workspace with members M (in the order
\* ms) and dependency edges E: the packages and resolve nodes reachable from
\* the members.  `gone` are ids whose resolve node is left out.
Metadata(ms, E, gone) ==
  LET M == {ms[i] : i \in 1..Len(ms)}
      R == Reach(M, E)
  IN [workspace_members |-> [i \in 1..Len(ms) |-> WorkspaceMember(ms[i])],
      packages |-> {Package(id) : id \in R},
      nodes |-> {Node(id, {e[2] : e \in {x \in E : x[1] = id}}) : id \in R \ gone}]

\* The member lists of the workspaces: one member, or two.
MemberSeqs == {<<A>>, <<A, B>>}

Graphs ==
  {g \in MemberSeqs \X EdgeSets :
     \A e \in g[2] : e[1] \in Reach({g[1][i] : i \in 1..Len(g[1])}, g[2])}

\* Snapshots as cargo produces them.
Snapshots == {Metadata(g[1], g[2], {}) : g \in Graphs}

\* Snapshots whose resolve may lack one node (its edges dangle).
DamagedSnapshots ==
  {Metadata(g[1], g[2], gone) : g \in Graphs, gone \in {{}} \cup {{id} : id \in Ids}}

\* The member lists of the workspaces that may repeat a member name.
AnyMemberSeqs == {<<A>>, <<A, B>>, <<A, A2>>, <<A2, A>>}

AnyEdgeSets ==
  {E \in SUBSET {e \in AnyIds \X AnyIds : e[1] # e[2]} : Cardinality(E) <= MaxEdges}

\* The dependency edges a workspace with the members ms can have.
AnyEdges(ms) ==
  {E \in AnyEdgeSets : \A e \in E : e[1] \in Reach({ms[i] : i \in 1..Len(ms)}, E)}

\* A snapshot that lacks the package and the resolve node of the ids in
\* `lost` (a snapshot cargo did not produce).
Lose(md, lost) ==
  [md EXCEPT !.packages = {p \in @ : p.id \notin lost},
             !.nodes = {n \in @ : n.id \notin lost}]

\* The old snapshots of a workspace: as cargo produces them, or without the
\* package of one member.
AnySnapshots(ms) ==
  {Lose(Metadata(ms, E, {}), lost) :
     E \in AnyEdges(ms), lost \in {{}} \cup {{ms[i]} : i \in 1..Len(ms)}}

\* The new snapshots of a workspace: the resolve may lack one node.
AnyDamagedSnapshots(ms) ==
  {Metadata(ms, E, gone) :
     E \in AnyEdges(ms), gone \in {{}} \cup {{id} : id \in AnyIds}}

\* The dependency edges, up to MaxDeepEdges, of a workspace with the members
\* ms.
DeepEdges(ms) ==
  {E \in SUBSET Edges :
     /\ Cardinality(E) <= MaxDeepEdges
     /\ \A e \in E : e[1] \in Reach({ms[i] : i \in 1..Len(ms)}, E)}

\* The edge sets one `cargo update` step away from E: the same, one edge
\* less, or one edge more.
OneEdgeChanged(E) == {E} \cup {E \ {e} : e \in E} \cup {E \cup {e} : e \in Edges}

-----------------------------------------------------------------------------
(* diff_resolve.                                                           *)

\* ResolveMap: nodes.iter().map(|n| (n.id.as_str(), n)).collect()
NodeIds(md) == {n.id : n \in md.nodes}

ResolveMap(md) == [id \in NodeIds(md) |-> CHOOSE n \in md.nodes : n.id = id]

first_resolve == ResolveMap(first)

second_resolve == ResolveMap(second)

Members(md) == {md.workspace_members[i] : i \in 1..Len(md.workspace_members)}

\* roots: (name, version) of every workspace member.
Roots(md) == {<<wm.name, wm.version>> : wm \in Members(md)}

RootIds_AllPackages(md) == {p.id : p \in md.packages}

\* root_ids: ids of the packages whose (name, version) is in roots.
RootIds(md) == {p.id : p \in {q \in md.packages : <<q.name, q.version>> \in Roots(md)}}

FindMember_OrFirst(md, name) ==
  LET hits == {i \in 1..Len(md.workspace_members) : md.workspace_members[i].name = name}
  IN IF hits = {} THEN 1 ELSE CHOOSE i \in hits : \A j \in hits : i <= j

\* workspace_members.iter().find(|m| m.name == name): the first match.
FindMember(md, name) ==
  LET hits == {i \in 1..Len(md.workspace_members) : md.workspace_members[i].name = name}
  IN IF hits = {} THEN 0 ELSE CHOOSE i \in hits : \A j \in hits : i <= j

\* The command line options SubUp::run and its steps read.
Matches ==
  [allow_lock_change : BOOLEAN, commit_title : {"None", "Some"}, test : BOOLEAN,
   create_pr : BOOLEAN, self_approve : BOOLEAN]

\* SubUp::run is not running.
NoRun ==
  /\ is_interactive = FALSE
  /\ matches = [allow_lock_change |-> FALSE, commit_title |-> "None", test |-> FALSE,
                create_pr |-> FALSE, self_approve |-> FALSE]
  /\ commit_title = "None"
  /\ step = "none"
  /\ io = <<>>
  /\ earlier = NoCall
  /\ runner = NewRunner
  /\ calls = <<>>

Init ==
  /\ NoRun
  /\ first \in Snapshots
  /\ second \in DamagedSnapshots
  /\ modified_members \in SUBSET {wm.name : wm \in Members(first)}
  /\ pc = "start"
  /\ root_ids = {}
  /\ modified_member_ids = {}
  /\ stack = <<>>
  /\ trail = <<>>
  /\ result = <<>>
  /\ changed_paths = {}
  /\ last_id = NoId

\* The locals of diff_resolve before its first statement.
InitLocals ==
  /\ NoRun
  /\ pc = "start"
  /\ root_ids = {}
  /\ modified_member_ids = {}
  /\ stack = <<>>
  /\ trail = <<>>
  /\ result = <<>>
  /\ changed_paths = {}
  /\ last_id = NoId

\* Any arguments: a workspace that may have two members of one name, an old
\* snapshot that may lack a member's package, names that no member has.
InitAnyInput ==
  /\ \E ms \in AnyMemberSeqs :
       /\ first \in AnySnapshots(ms)
       /\ second \in AnyDamagedSnapshots(ms)
  /\ modified_members \in SUBSET ({wm.name : wm \in Members(first)} \cup {NoMember})
  /\ InitLocals

\* An old snapshot with up to MaxDeepEdges edges, and a new snapshot with
\* at most one edge changed and at most one node missing.
InitDeep ==
  /\ \E ms \in MemberSeqs : \E E \in DeepEdges(ms) :
       /\ first = Metadata(ms, E, {})
       /\ second \in {Metadata(ms, E2, gone) :
                        E2 \in OneEdgeChanged(E), gone \in {{}} \cup {{id} : id \in Ids}}
  /\ modified_members \in SUBSET {wm.name : wm \in Members(first)}
  /\ InitLocals

\* Snapshots that cargo did not produce: the old resolve, like the new one,
\* may lack one node, so that an old dependency edge dangles.
InitMalformed ==
  /\ first \in DamagedSnapshots
  /\ second \in DamagedSnapshots
  /\ modified_members \in SUBSET {wm.name : wm \in Members(first)}
  /\ InitLocals

\* Two snapshots as cargo produces them, for diff_resolve(a, b, m) followed
\* by diff_resolve(b, a, m).
InitSwap ==
  /\ first \in Snapshots
  /\ second \in Snapshots
  /\ modified_members \in SUBSET {wm.name : wm \in Members(first)}
  /\ InitLocals

\* Lines 23-72: the roots, the modified member ids (panics on an unknown
\* name) and the two resolve maps.
Start ==
  /\ pc = "start"
  /\ IF \E name \in modified_members : FindMember(first, name) = 0
       THEN /\ pc' = "panic"
            /\ UNCHANGED <<root_ids, modified_member_ids>>
       ELSE /\ pc' = "diff"
            /\ root_ids' = RootIds(first)
            /\ modified_member_ids' =
                 {LET m == first.workspace_members[FindMember(first, name)]
                  IN <<m.name, m.version>> : name \in modified_members}
  /\ UNCHANGED <<first, second, modified_members, stack, trail, result,
                 changed_paths, last_id>>
  /\ UNCHANGED run_vars
  /\ UNCHANGED call_vars
  /\ UNCHANGED runner_vars

IsStop_IgnoresModified(id) == id \notin DOMAIN second_resolve

IsStop_IgnoresMissing(id) == strip_source(id) \in modified_member_ids

\* Line 126: the node is gone from `second`, or is a modified member.
IsStop(id) ==
  id \notin DOMAIN second_resolve \/ strip_source(id) \in modified_member_ids

\* Lines 131-132: indexing a HashMap with an absent key panics.
IndexPanics(id) == id \notin DOMAIN first_resolve \/ id \notin DOMAIN second_resolve

Removed_NoneMissing(first_deps, second_deps) == {}

\* Lines 134-141: the dependencies of `first` that `second` does not contain.
Removed(first_deps, second_deps) == {dep \in first_deps : dep \notin second_deps}

Added_NoContainsTest(first_deps, second_deps) == second_deps

Added_Never(first_deps, second_deps) == {}

\* Lines 142-149: the dependencies of `second` that `first` does not contain.
Added(first_deps, second_deps) == {dep \in second_deps : dep \notin first_deps}

EdgeTrails_FirstOnly(t, first_deps, second_deps) ==
  {IF Len(p) + Len(q) = 0 THEN <<>> ELSE <<Append(t, strip_source((p \o q)[1]))>> :
     p \in Perms(Removed(first_deps, second_deps)),
     q \in Perms(Added(first_deps, second_deps))}

\* The trails the two loops push for the trail t, in the order of the Vecs.
EdgeTrails(t, first_deps, second_deps) ==
  {[i \in 1..Len(p) |-> Append(t, strip_source(p[i]))] \o
   [i \in 1..Len(q) |-> Append(t, strip_source(q[i]))] :
     p \in Perms(Removed(first_deps, second_deps)),
     q \in Perms(Added(first_deps, second_deps))}

RecurseDeps_Never(first_deps, second_deps) == {}

RecurseDeps_IntoSecond(first_deps, second_deps) == second_deps

RecurseDeps_Always(first_deps, second_deps) == first_deps

\* Lines 150-152: the dependencies diff() recurses into (none once `found`).
RecurseDeps(first_deps, second_deps) ==
  IF Removed(first_deps, second_deps) # {} \/ Added(first_deps, second_deps) # {}
    THEN {}
    ELSE first_deps

\* One call diff(.., id, trail, result) made with the frames stk active, up
\* to its first nested call or its return (lines 125-152 and 163).
DiffCall(stk, id) ==
  LET t == Append(trail, strip_source(id)) IN
  /\ last_id' = id
  /\ IF IsStop(id)
       THEN \* lines 127-129
            /\ result' = Append(result, t)
            /\ stack' = stk
            /\ UNCHANGED <<trail, pc>>
       ELSE IF IndexPanics(id)
       THEN /\ pc' = "panic"
            /\ trail' = t
            /\ stack' = stk
            /\ UNCHANGED result
       ELSE LET first_deps == first_resolve[id].dependencies
                second_deps == second_resolve[id].dependencies
                todo == RecurseDeps(first_deps, second_deps)
            IN /\ \E ts \in EdgeTrails(t, first_deps, second_deps) :
                    result' = result \o ts
               /\ IF todo = {}
                    THEN \* no nested call: line 163
                         /\ stack' = stk
                         /\ UNCHANGED <<trail, pc>>
                    ELSE IF Len(stk) >= MaxDepth
                    THEN \* the recursion exhausts the thread's stack
                         /\ pc' = "overflow"
                         /\ trail' = t
                         /\ stack' = stk
                    ELSE \* enter the loop of line 152
                         /\ trail' = t
                         /\ stack' = Append(stk, [id |-> id, todo |-> todo])
                         /\ UNCHANGED pc

\* Lines 75-85: the next root of the HashSet iteration.
DiffRoot ==
  /\ pc = "diff"
  /\ stack = <<>>
  /\ \E id \in root_ids :
       /\ root_ids' = root_ids \ {id}
       /\ DiffCall(stack, id)
  /\ UNCHANGED <<first, second, modified_members, modified_member_ids, changed_paths>>
  /\ UNCHANGED run_vars
  /\ UNCHANGED call_vars
  /\ UNCHANGED runner_vars

\* Lines 152-161: the recursive call for the next dependency of the innermost
\* frame.
DiffDep ==
  /\ pc = "diff"
  /\ stack # <<>>
  /\ \E dep \in stack[Len(stack)].todo :
       DiffCall([stack EXCEPT ![Len(stack)].todo = @ \ {dep}], dep)
  /\ UNCHANGED <<first, second, modified_members, modified_member_ids, changed_paths,
                 root_ids>>
  /\ UNCHANGED run_vars
  /\ UNCHANGED call_vars
  /\ UNCHANGED runner_vars

DiffReturn_NoPop ==
  /\ pc = "diff"
  /\ stack # <<>>
  /\ stack[Len(stack)].todo = {}
  /\ stack' = SubSeq(stack, 1, Len(stack) - 1)
  /\ UNCHANGED <<first, second, modified_members, modified_member_ids, changed_paths,
                 root_ids, result, pc, last_id, trail>>
  /\ UNCHANGED run_vars
  /\ UNCHANGED call_vars
  /\ UNCHANGED runner_vars

\* Line 163: the innermost frame has recursed into all its dependencies.
DiffReturn ==
  /\ pc = "diff"
  /\ stack # <<>>
  /\ stack[Len(stack)].todo = {}
  /\ stack' = SubSeq(stack, 1, Len(stack) - 1)
  /\ trail' = SubSeq(trail, 1, Len(trail) - 1)
  /\ UNCHANGED <<first, second, modified_members, modified_member_ids, changed_paths,
                 root_ids, result, pc, last_id>>
  /\ UNCHANGED run_vars
  /\ UNCHANGED call_vars
  /\ UNCHANGED runner_vars

\* Lines 94-102 for one trail: the first workspace member with the name.
PathOf(md, t) ==
  LET i == FindMember(md, first_word(t[1]))
  IN IF i = 0 \/ ~starts_with_path(md.workspace_members[i].url)
       THEN {}
       ELSE {url_path(md.workspace_members[i].url)}

\* Lines 87-108: the paths of the members the trails start at; panics when a
\* trail's name is no member's or a member's url is no path url.
ResolvePaths ==
  /\ pc = "diff"
  /\ stack = <<>>
  /\ root_ids = {}
  /\ IF \E i \in 1..Len(result) : PathOf(first, result[i]) = {}
       THEN /\ pc' = "panic"
            /\ UNCHANGED changed_paths
       ELSE /\ pc' = "done"
            /\ changed_paths' = UNION {PathOf(first, result[i]) : i \in 1..Len(result)}
  /\ UNCHANGED <<first, second, modified_members, modified_member_ids, root_ids,
                 stack, trail, result, last_id>>
  /\ UNCHANGED run_vars
  /\ UNCHANGED call_vars
  /\ UNCHANGED runner_vars

Next == Start \/ DiffRoot \/ DiffDep \/ DiffReturn \/ ResolvePaths

Spec == Init /\ [][Next]_vars

\* diff_resolve runs to its end: a step that can be taken is taken.
SpecFair == Init /\ [][Next]_vars /\ WF_vars(Next)

\* diff_resolve on snapshots with several dependency paths to one node.
SpecDeep == InitDeep /\ [][Next]_vars

\* diff_resolve on any arguments.
SpecAnyInput == InitAnyInput /\ [][Next]_vars

\* diff_resolve on an old snapshot with a dangling dependency edge.
SpecMalformed == InitMalformed /\ [][Next]_vars

\* Lines 18-22 and 108: diff_resolve returned (result, changed_paths) and
\* is called again with the two snapshots swapped.
CallSwapped ==
  /\ pc = "done"
  /\ ~earlier.called
  /\ earlier' = [called |-> TRUE, result |-> result, changed_paths |-> changed_paths]
  /\ first' = second
  /\ second' = first
  /\ pc' = "start"
  /\ root_ids' = {}
  /\ modified_member_ids' = {}
  /\ stack' = <<>>
  /\ trail' = <<>>
  /\ result' = <<>>
  /\ changed_paths' = {}
  /\ last_id' = NoId
  /\ UNCHANGED modified_members
  /\ UNCHANGED run_vars
  /\ UNCHANGED runner_vars

NextSwap == Next \/ CallSwapped

\* diff_resolve(a, b, m), then diff_resolve(b, a, m).
SpecSwap == InitSwap /\ [][NextSwap]_vars

-----------------------------------------------------------------------------
(* Runner (src/src/runner.rs) and Cli (src/src/cli.rs).                    *)

\* What Command::output gives: the exit code of the child, no code (killed
\* by a signal), or an error of the spawn.
Outcomes == {"Some(0)", "Some(1)", "Some(2)", "None", "SpawnErr"}

RunnerRun_IgnoresWantsSuccess(wants_success, out) ==
  IF out \in {"Some(0)", "Some(1)"} THEN "Ok" ELSE "Err"

\* Runner::run, lines 86-105: Ok or Err for the outcome of the child.
RunnerRun(wants_success, out) ==
  IF out = "SpawnErr" THEN "Err"
  ELSE IF \/ out = "None"
          \/ (wants_success /\ out # "Some(0)")
          \/ (out # "Some(0)" /\ out # "Some(1)")
    THEN "Err"
    ELSE "Ok"

\* Runner::run and Runner::capture_stdout on a new Runner (wants_success).
Run(out) == RunnerRun(TRUE, out)

\* Runner::status clears wants_success.
Status(out) == RunnerRun(FALSE, out)

\* ExitStatus::success
Success(out) == out = "Some(0)"

\* One entry of calls: the method, the outcome of the child and what the
\* method returned.
Called(method, out, res) == [method |-> method, out |-> out, result |-> res]

\* A new Runner that no method was called on; diff_resolve and SubUp::run
\* are not running.
InitRunner ==
  /\ NoRun
  /\ first = [workspace_members |-> <<>>, packages |-> {}, nodes |-> {}]
  /\ second = first
  /\ modified_members = {}
  /\ pc = "none"
  /\ root_ids = {}
  /\ modified_member_ids = {}
  /\ stack = <<>>
  /\ trail = <<>>
  /\ result = <<>>
  /\ changed_paths = {}
  /\ last_id = NoId

\* Lines 70-106: runner.run(err_context).
RunnerCallRun ==
  /\ Len(calls) < MaxCalls
  /\ \E out \in Outcomes :
       calls' = Append(calls, Called("run", out, RunnerRun(runner.wants_success, out)))
  /\ UNCHANGED runner
  /\ UNCHANGED <<graph_vars, run_vars, call_vars>>

\* Lines 57-61: runner.capture_stdout(err_context).
RunnerCaptureStdout ==
  /\ Len(calls) < MaxCalls
  /\ runner' = [runner EXCEPT !.inherit_stdout = FALSE]
  /\ \E out \in Outcomes :
       calls' = Append(calls, Called("capture_stdout", out,
                                     RunnerRun(runner'.wants_success, out)))
  /\ UNCHANGED <<graph_vars, run_vars, call_vars>>

\* Lines 63-68: runner.status(err_context).
RunnerStatus ==
  /\ Len(calls) < MaxCalls
  /\ runner' = [runner EXCEPT !.wants_success = FALSE, !.inherit_stdout = FALSE]
  /\ \E out \in Outcomes :
       calls' = Append(calls, Called("status", out, RunnerRun(runner'.wants_success, out)))
  /\ UNCHANGED <<graph_vars, run_vars, call_vars>>

NextRunner == RunnerCallRun \/ RunnerCaptureStdout \/ RunnerStatus

\* The calls a user can make on one Runner.
SpecRunner == InitRunner /\ [][NextRunner]_vars

\* One entry of io: a command or a prompt, and its outcome.
Ran(cmd, out) == [cmd |-> cmd, out |-> out]

\* matches.is_present("force"): main defines no such option.
force == FALSE

\* What the user may answer to a prompt; "Err" is a failure of the terminal.
Answers == {"yes", "no", "Err"}

\* Cli::confirm for the default and the user's answer.
Confirm(default, answer) ==
  IF force THEN default
  ELSE IF ~is_interactive THEN FALSE
  ELSE answer = "yes"

\* Cli::input for the default and the text the user enters ("Some"), or
\* "Err" for a failure of the terminal.
Input(default, text) ==
  IF force THEN default
  ELSE IF ~is_interactive THEN "None"
  ELSE text

-----------------------------------------------------------------------------
(* SubUp::run (src/src/bin/subup.rs).  A step is one call of run(); `?`    *)
(* ends the run with Err.  Writes to the terminal are taken to succeed.    *)

\* Largest number of workspace members in the updated submodules.
MaxMembers == 2

\* The steps of run() before update_lock, in order.  Their commands are
\* not recorded in io.
SetupSteps ==
  <<"check_environment", "check_branch", "make_branch", "load_metadata", "check_args",
    "fetch_submodules", "check_submodule_rev", "check_for_updates", "update_submodules",
    "check_submodule_updated">>

\* The steps that may end the process with exit().
ExitingSteps ==
  {"check_environment", "check_branch", "check_for_updates", "check_submodule_updated"}

\* The commands and prompts of the steps from update_lock on.
GitDiffManifest == "git diff-index --quiet <original_hash> Cargo.toml"
CargoUpdate == "cargo update -p"
GitDiffLock == "git diff-index --quiet HEAD Cargo.lock"
ConfirmLock == "confirm: Please carefully inspect Cargo.lock changes."
GitAddCmd == "git add"
GitRevParse == "git rev-parse --verify"
Configure == "./configure"
XPyTest == "./x.py test"
ConfirmCommit == "confirm: Ready to commit?"
GitCommit == "git commit -m"
GitPush == "git push"
ConfirmPr == "confirm: Ready to create a PR?"
GhPrCreate == "gh pr create"
GhPrComment == "gh pr comment"
GitRemoteGetUrl == "git remote get-url origin"

InitRun ==
  /\ is_interactive \in BOOLEAN
  /\ matches \in {m \in Matches : m.self_approve => m.create_pr}
  /\ commit_title = "None"
  /\ step = SetupSteps[1]
  /\ io = <<>>
  /\ earlier = NoCall
  /\ runner = NewRunner
  /\ calls = <<>>
  \* diff_resolve is not called.
  /\ first = Metadata(<<A>>, {}, {})
  /\ second = Metadata(<<A>>, {}, {})
  /\ modified_members = {}
  /\ pc = "none"
  /\ root_ids = {}
  /\ modified_member_ids = {}
  /\ stack = <<>>
  /\ trail = <<>>
  /\ result = <<>>
  /\ changed_paths = {}
  /\ last_id = NoId

\* Lines 690-699: a step before update_lock returns Ok or Err, or exits.
Setup ==
  /\ \E i \in 1..Len(SetupSteps) :
       /\ step = SetupSteps[i]
       /\ \E res \in {"Ok", "Err"} \cup (IF step \in ExitingSteps THEN {"exit"} ELSE {}) :
            step' = IF res # "Ok" THEN res
                    ELSE IF i < Len(SetupSteps) THEN SetupSteps[i + 1]
                    ELSE "update_lock"
  /\ UNCHANGED <<is_interactive, matches, commit_title, io>>
  /\ UNCHANGED graph_vars
  /\ UNCHANGED call_vars
  /\ UNCHANGED runner_vars

\* Lines 440-463: for each member, whether its manifest changed and, if so,
\* `cargo update`; ms[i] is the outcome of the two commands for member i.
\* Gives the entries of io and whether every command succeeded.
RECURSIVE UpdateMembers(_)
UpdateMembers(ms) ==
  IF ms = <<>> THEN [io |-> <<>>, ok |-> TRUE]
  ELSE LET m == Head(ms)
           diffed == Ran(GitDiffManifest, m[1])
           updated == Ran(CargoUpdate, m[2])
           rest == UpdateMembers(Tail(ms))
       IN IF Status(m[1]) = "Err" THEN [io |-> <<diffed>>, ok |-> FALSE]
          ELSE IF Success(m[1]) THEN [io |-> <<diffed>> \o rest.io, ok |-> rest.ok]
          ELSE IF Run(m[2]) = "Err" THEN [io |-> <<diffed, updated>>, ok |-> FALSE]
          ELSE [io |-> <<diffed, updated>> \o rest.io, ok |-> rest.ok]

LockChangeRefused_Never == FALSE

\* Line 467: a changed Cargo.lock needs --allow-lock-change when the run is
\* not interactive.
LockChangeRefused == ~is_interactive /\ ~matches.allow_lock_change

\* Where run() goes after commit: lines 704-708.
AfterCommit == IF matches.create_pr THEN "create_pr" ELSE "finish_manual_pr"

\* Lines 438-479: update_lock.
UpdateLock ==
  /\ step = "update_lock"
  /\ \E n \in 0..MaxMembers : \E ms \in [1..n -> Outcomes \X Outcomes] :
     \E lock \in Outcomes : \E answer \in Answers :
       LET members == UpdateMembers(ms)
           checked == io \o members.io \o <<Ran(GitDiffLock, lock)>>
       IN IF ~members.ok
            THEN io' = io \o members.io /\ step' = "Err"
          ELSE IF Status(lock) = "Err"
            THEN io' = checked /\ step' = "Err"
          ELSE IF Success(lock)
            THEN io' = checked /\ step' = "git_add"
          ELSE IF LockChangeRefused
            THEN io' = checked /\ step' = "Err"
          ELSE IF is_interactive
            THEN /\ io' = Append(checked, Ran(ConfirmLock, answer))
                 /\ step' = IF answer = "Err" \/ ~Confirm(TRUE, answer)
                              THEN "Err" ELSE "git_add"
          ELSE io' = checked /\ step' = "git_add"
  /\ UNCHANGED <<is_interactive, matches, commit_title>>
  /\ UNCHANGED graph_vars
  /\ UNCHANGED call_vars
  /\ UNCHANGED runner_vars

\* Lines 551-563: git_add.
GitAdd ==
  /\ step = "git_add"
  /\ \E out \in Outcomes :
       /\ io' = Append(io, Ran(GitAddCmd, out))
       /\ step' = IF Run(out) = "Err" THEN "Err" ELSE "prepare_commit_message"
  /\ UNCHANGED <<is_interactive, matches, commit_title>>
  /\ UNCHANGED graph_vars
  /\ UNCHANGED call_vars
  /\ UNCHANGED runner_vars

\* Lines 565-580: prepare_commit_message, for one updated submodule: its
\* hash, then log::generate_commit, which succeeds or fails.
PrepareCommitMessage ==
  /\ step = "prepare_commit_message"
  /\ \E out \in Outcomes : \E generated \in {"Ok", "Err"} :
       /\ io' = Append(io, Ran(GitRevParse, out))
       /\ step' = IF Run(out) = "Err" \/ generated = "Err" THEN "Err" ELSE "test"
  /\ UNCHANGED <<is_interactive, matches, commit_title>>
  /\ UNCHANGED graph_vars
  /\ UNCHANGED call_vars
  /\ UNCHANGED runner_vars

\* Lines 481-549: test.  `skip` says that the --test values or the text the
\* user enters name no test to run.
Test ==
  /\ step = "test"
  /\ \E skip \in BOOLEAN : \E configured, tested \in Outcomes :
       IF skip \/ (~is_interactive /\ ~matches.test)
         THEN io' = io /\ step' = "commit"
       ELSE IF Run(configured) = "Err"
         THEN io' = Append(io, Ran(Configure, configured)) /\ step' = "Err"
       ELSE /\ io' = io \o <<Ran(Configure, configured), Ran(XPyTest, tested)>>
            /\ step' = IF Run(tested) = "Err" THEN "Err" ELSE "commit"
  /\ UNCHANGED <<is_interactive, matches, commit_title>>
  /\ UNCHANGED graph_vars
  /\ UNCHANGED call_vars
  /\ UNCHANGED runner_vars

\* Lines 582-610: commit.
Commit ==
  /\ step = "commit"
  /\ \E answer \in Answers : \E text \in {"Some", "Err"} :
     \E committed, pushed \in Outcomes :
       LET asked == IF is_interactive THEN Append(io, Ran(ConfirmCommit, answer)) ELSE io
           default == matches.commit_title
           input == Input(default, text)
           title == IF input # "None" THEN input ELSE default
       IN IF is_interactive /\ answer = "Err"
            THEN io' = asked /\ step' = "Err" /\ UNCHANGED commit_title
          ELSE IF is_interactive /\ ~Confirm(TRUE, answer)
            THEN io' = asked /\ step' = AfterCommit /\ UNCHANGED commit_title
          ELSE IF input = "Err"
            THEN io' = asked /\ step' = "Err" /\ UNCHANGED commit_title
          ELSE IF title = "None"
            THEN io' = asked /\ step' = AfterCommit /\ commit_title' = title
          ELSE IF Run(committed) = "Err"
            THEN /\ io' = Append(asked, Ran(GitCommit, committed))
                 /\ step' = "Err" /\ commit_title' = title
          ELSE /\ io' = asked \o <<Ran(GitCommit, committed), Ran(GitPush, pushed)>>
               /\ step' = IF Run(pushed) = "Err" THEN "Err" ELSE AfterCommit
               /\ commit_title' = title
  /\ UNCHANGED <<is_interactive, matches>>
  /\ UNCHANGED graph_vars
  /\ UNCHANGED call_vars
  /\ UNCHANGED runner_vars

\* Lines 612-657: create_pr and self_approve.  `url` says that gh printed
\* the url of a pull request.
CreatePr ==
  /\ step = "create_pr"
  /\ \E answer \in Answers : \E created, commented \in Outcomes : \E url \in BOOLEAN :
       LET asked == IF is_interactive THEN Append(io, Ran(ConfirmPr, answer)) ELSE io
       IN IF is_interactive /\ answer = "Err"
            THEN io' = asked /\ step' = "Err"
          ELSE IF is_interactive /\ ~Confirm(TRUE, answer)
            THEN io' = asked /\ step' = "Ok"
          ELSE IF commit_title = "None"
            THEN io' = asked /\ step' = "Err"
          ELSE IF Run(created) = "Err" \/ ~url
            THEN io' = Append(asked, Ran(GhPrCreate, created)) /\ step' = "Err"
          ELSE IF ~matches.self_approve
            THEN io' = Append(asked, Ran(GhPrCreate, created)) /\ step' = "Ok"
          ELSE /\ io' = asked \o <<Ran(GhPrCreate, created), Ran(GhPrComment, commented)>>
               /\ step' = IF Run(commented) = "Err" THEN "Err" ELSE "Ok"
  /\ UNCHANGED <<is_interactive, matches, commit_title>>
  /\ UNCHANGED graph_vars
  /\ UNCHANGED call_vars
  /\ UNCHANGED runner_vars

\* Lines 659-687: finish_manual_pr.  `named` says that the url of origin
\* names a user's fork of rust.
FinishManualPr ==
  /\ step = "finish_manual_pr"
  /\ \E out \in Outcomes : \E named \in BOOLEAN :
       /\ io' = Append(io, Ran(GitRemoteGetUrl, out))
       /\ step' = IF Run(out) = "Err" \/ ~named THEN "Err" ELSE "Ok"
  /\ UNCHANGED <<is_interactive, matches, commit_title>>
  /\ UNCHANGED graph_vars
  /\ UNCHANGED call_vars
  /\ UNCHANGED runner_vars

\* Lines 689-711: run.
NextRun ==
  Setup \/ UpdateLock \/ GitAdd \/ PrepareCommitMessage \/ Test \/ Commit \/ CreatePr
    \/ FinishManualPr

SpecRun == InitRun /\ [][NextRun]_vars

-----------------------------------------------------------------------------
(* Vocabulary of the properties.                                           *)

Done == pc = "done"

Trails == {result[i] : i \in 1..Len(result)}

Last(t) == t[Len(t)]

\* The dependencies of id in a snapshot (none when it has no node).
Deps(md, id) == UNION {n.dependencies : n \in {m \in md.nodes : m.id = id}}

EdgesOf(md) == UNION {{<<n.id, d>> : d \in n.dependencies} : n \in md.nodes}

\* The sub-graph of a snapshot reachable from id: the reachable nodes, each
\* with its dependency list.
SubGraph(md, id) == {n \in md.nodes : n.id \in Reach({id}, EdgesOf(md))}

\* No node of the snapshot reaches itself.
Acyclic(md) ==
  \A n \in md.nodes : n.id \notin Reach(n.dependencies, EdgesOf(md))

\* The trails diff_resolve returned that start at the root id.
TrailsFrom(id) == {i \in 1..Len(result) : result[i][1] = strip_source(id)}

\* A call of diff(): from the root loop or from the recursion loop.
Call == DiffRoot \/ DiffDep

\* The trails a step pushed.
Pushed == [i \in 1..(Len(result') - Len(result)) |-> result'[Len(result) + i]]

-----------------------------------------------------------------------------
(* C1. Identity: diff_resolve(S, S, {}) returns no trail and no affected   *)
(* path, for a snapshot S as cargo produces it.                            *)
C1_Identity ==
  (Done /\ second = first /\ modified_members = {})
    => (result = <<>> /\ changed_paths = {})

\* diff_resolve(S, S, {}) returned, for an S whose roots have dependencies
\* that the trace recursed into.
C1_Witness ==
  /\ Done /\ second = first /\ modified_members = {}
  /\ Cardinality(EdgesOf(first)) = MaxEdges
  /\ last_id \notin RootIds(first)

(* C2. With no modified member and an acyclic old snapshot, a root has a   *)
(* trail starting at it exactly when the sub-graph reachable from it in    *)
(* old differs from the one reachable from it in new.                      *)
C2_SoundComplete ==
  (Done /\ modified_members = {} /\ Acyclic(first))
    => \A id \in RootIds(first) :
         (TrailsFrom(id) # {}) <=> (SubGraph(first, id) # SubGraph(second, id))

\* Two roots, one with a changed closure below an unchanged edge and one
\* with an unchanged closure.
C2_Witness ==
  /\ Done /\ modified_members = {} /\ Acyclic(first)
  /\ \E r1, r2 \in RootIds(first) :
       /\ r1 # r2
       /\ TrailsFrom(r1) # {} /\ TrailsFrom(r2) = {}
       /\ Deps(first, r1) = Deps(second, r1) /\ Deps(first, r1) # {}
       /\ r1 \in NodeIds(second)

\* The root id is the one modified member and the snapshots are the same.
ForcedRoot(id) ==
  /\ modified_members = {id[1]}
  /\ second = first
  /\ id \in RootIds(first)

\* The path of the workspace member with the package id.
MemberPath(id) == url_path(WorkspaceMember(id).url)

\* Some other root of old reaches id over old's dependency edges.
ReachedFromOtherRoot(id) ==
  \E r \in RootIds(first) \ {id} : id \in Reach({r}, EdgesOf(first))

(* C3 as stated: with one modified root (n, v) and otherwise identical     *)
(* snapshots the result is exactly the one trail [(n, v)] and the root's   *)
(* path is affected.                                                       *)
C3_Original ==
  \A id \in Ids :
    (Done /\ ForcedRoot(id))
      => (result = <<<<strip_source(id)>>>> /\ MemberPath(id) \in changed_paths)

(* C3, amended. With one modified root (n, v) and otherwise identical      *)
(* snapshots the result contains the trail [(n, v)], every trail ends at   *)
(* (n, v), and the root's path is affected; [(n, v)] is the only trail     *)
(* when no other root reaches (n, v) in old.                               *)
C3_ForcedRoot ==
  \A id \in Ids :
    (Done /\ ForcedRoot(id))
      => /\ <<strip_source(id)>> \in Trails
         /\ \A t \in Trails : Last(t) = strip_source(id)
         /\ MemberPath(id) \in changed_paths
         /\ ~ReachedFromOtherRoot(id) => result = <<<<strip_source(id)>>>>

\* A modified root that another root depends on: two trails end at it.
C3_Witness ==
  \E id \in Ids :
    /\ Done /\ ForcedRoot(id)
    /\ ReachedFromOtherRoot(id)
    /\ Len(result) = 2

\* The call of this step visits a node that `second` has and that is no
\* modified member.
VisitsComparedNode ==
  /\ Call
  /\ last_id' \in NodeIds(first) \cap NodeIds(second)
  /\ strip_source(last_id') \notin modified_member_ids

\* The trail of the node the call of this step visits.
VisitTrail == Append(trail, strip_source(last_id'))

\* How many of the trails this step pushed equal t.
PushedCount(t) == Cardinality({i \in DOMAIN Pushed : Pushed[i] = t})

\* Old A -> {B}, new A -> {B, C}, nothing modified.
AddedExample ==
  /\ first.nodes = {Node(A, {B}), Node(B, {})}
  /\ second.nodes = {Node(A, {B, C}), Node(B, {}), Node(C, {})}
  /\ modified_members = {}

\* Old A -> {B, C}, new A -> {B}, nothing modified.
RemovedExample ==
  /\ first.nodes = {Node(A, {B, C}), Node(B, {}), Node(C, {})}
  /\ second.nodes = {Node(A, {B}), Node(B, {})}
  /\ modified_members = {}

\* No trail of the result contains the stripped id.
NoTrailContains(id) ==
  \A t \in Trails : \A i \in 1..Len(t) : t[i] # strip_source(id)

(* C4. A visit of a node that new has and that is not modified pushes      *)
(* exactly one trail, the node's trail plus the dependency, for every      *)
(* dependency new lists and old does not, and no trail ending at a         *)
(* dependency both list; old A -> {B}, new A -> {B, C} gives the trail     *)
(* [A, C] and no trail containing B.                                       *)
C4_AddedDependency ==
  /\ [][VisitsComparedNode =>
          /\ \A dep \in Deps(second, last_id') \ Deps(first, last_id') :
               PushedCount(Append(VisitTrail, strip_source(dep))) = 1
          /\ \A dep \in Deps(second, last_id') \cap Deps(first, last_id') :
               \A i \in DOMAIN Pushed : Last(Pushed[i]) # strip_source(dep)]_vars
  /\ []((Done /\ AddedExample) =>
          (<<strip_source(A), strip_source(C)>> \in Trails /\ NoTrailContains(B)))

\* diff_resolve returned on the example of an added dependency.
C4_Witness == Done /\ AddedExample /\ Len(result) = 1

(* C5. A visit of a node that new has and that is not modified pushes      *)
(* exactly one trail, the node's trail plus the dependency, for every      *)
(* dependency old lists and new does not; old A -> {B, C}, new A -> {B}    *)
(* gives the trail [A, C].                                                 *)
C5_RemovedDependency ==
  /\ [][VisitsComparedNode =>
          \A dep \in Deps(first, last_id') \ Deps(second, last_id') :
            PushedCount(Append(VisitTrail, strip_source(dep))) = 1]_vars
  /\ []((Done /\ RemovedExample) => <<strip_source(A), strip_source(C)>> \in Trails)

\* diff_resolve returned on the example of a removed dependency.
C5_Witness == Done /\ RemovedExample /\ Len(result) = 1

\* Old chain A -> B -> C, new chain A -> B -> D (C at another version).
ChainExample ==
  /\ first.nodes = {Node(A, {B}), Node(B, {C}), Node(C, {})}
  /\ second.nodes = {Node(A, {B}), Node(B, {D}), Node(D, {})}
  /\ modified_members = {}

\* Old chain A -> B -> C; new A -> B -> C without a node for C.
DanglingChainExample ==
  /\ first.nodes = {Node(A, {B}), Node(B, {C}), Node(C, {})}
  /\ second.nodes = {Node(A, {B}), Node(B, {C})}
  /\ modified_members = {}

ChainTrail == <<strip_source(A), strip_source(B), strip_source(C)>>

\* A visit of a node with the same non-empty dependency sets in old and new
\* pushes no trail and opens the loop over all its old dependencies; a loop
\* calls diff() on a dependency that is left, and ends when none is left.
RecursesIntoOldDeps ==
  /\ [][(VisitsComparedNode /\ Deps(first, last_id') = Deps(second, last_id')
           /\ Deps(first, last_id') # {} /\ pc' = "diff")
          => /\ result' = result
             /\ Len(stack') = Len(stack) + 1
             /\ stack'[Len(stack')] =
                  [id |-> last_id', todo |-> Deps(first, last_id')]]_vars
  /\ [][DiffDep => /\ last_id' \in stack[Len(stack)].todo
                   /\ Len(stack') >= Len(stack)
                   /\ stack'[Len(stack)].todo = stack[Len(stack)].todo \ {last_id'}]_vars
  /\ [][Len(stack') < Len(stack) => stack[Len(stack)].todo = {}]_vars

(* C6 as stated: the trace recurses into the old dependencies of an        *)
(* unchanged node, and on old A -> B -> C(v1), new A -> B -> C(v2) the     *)
(* trail [A, B, C] is in the result, pushed by the visit of C, which has   *)
(* no node in new.                                                         *)
C6_Original ==
  /\ RecursesIntoOldDeps
  /\ []((Done /\ ChainExample) => ChainTrail \in Trails)
  /\ [][(ChainExample /\ \E i \in DOMAIN Pushed : Pushed[i] = ChainTrail)
          => (Call /\ last_id' = C /\ C \notin NodeIds(second))]_vars

(* C6, amended. The trace recurses into the old dependencies of an         *)
(* unchanged node. On old A -> B -> C(v1), new A -> B -> C(v2) the result  *)
(* contains [A, B, C(v1)] and [A, B, C(v2)], both pushed by the visit of   *)
(* B, whose dependency sets differ, and C is never visited. The visit of C *)
(* pushes [A, B, C] when new B still lists C(v1) and new has no node for   *)
(* it.                                                                     *)
C6_DeepDivergence ==
  /\ RecursesIntoOldDeps
  /\ []((Done /\ ChainExample) =>
          /\ ChainTrail \in Trails
          /\ <<strip_source(A), strip_source(B), strip_source(D)>> \in Trails)
  /\ [][(ChainExample /\ Call) => last_id' # C]_vars
  /\ [][(ChainExample /\ \E i \in DOMAIN Pushed : Pushed[i] = ChainTrail)
          => (Call /\ last_id' = B)]_vars
  /\ []((Done /\ DanglingChainExample) => ChainTrail \in Trails)
  /\ [][(DanglingChainExample /\ \E i \in DOMAIN Pushed : Pushed[i] = ChainTrail)
          => (Call /\ last_id' = C /\ Len(stack) = 2)]_vars

\* diff_resolve returned on the chain example.
C6_Witness == Done /\ ChainExample /\ ChainTrail \in Trails

\* diff_resolve returned on the chain whose last node is gone from new.
C6_WitnessDangling == Done /\ DanglingChainExample /\ ChainTrail \in Trails

\* The ids old reaches from the root id.
OldClosure(id) == Reach({id}, EdgesOf(first))

\* The dependency edges below the root that old and new disagree on: the
\* node is in new and exactly one of the snapshots lists the dependency.
ChangedEdges(id) ==
  {e \in Ids \X Ids :
     /\ e[1] \in OldClosure(id) \cap NodeIds(second)
     /\ (e[2] \in Deps(first, e[1])) # (e[2] \in Deps(second, e[1]))}

\* The dependency edges below the root that both snapshots list and whose
\* target has no node in new.
GoneEdges(id) ==
  {e \in Ids \X Ids :
     /\ e[1] \in OldClosure(id) \cap NodeIds(second)
     /\ e[2] \in Deps(first, e[1]) \cap Deps(second, e[1])
     /\ e[2] \notin NodeIds(second)}

\* The names of the packages behind those edges: a dependency that moves
\* to another version is one name.
ChangedNames(id) == {e[2][1] : e \in ChangedEdges(id) \cup GoneEdges(id)}

\* The dependency paths of old that start at id and repeat no node.
RECURSIVE PathsFrom(_)
PathsFrom(P) ==
  LET Q == P \cup UNION {{Append(p, d) :
                            d \in {x \in Deps(first, Last(p)) :
                                     \A i \in 1..Len(p) : p[i] # x}} : p \in P}
  IN IF Q = P THEN P ELSE PathsFrom(Q)

NumPaths(from, to) == Cardinality({p \in PathsFrom({<<from>>}) : Last(p) = to})

\* The two roots of the workspace, with closures that are disjoint in old
\* and in new, nothing modified.
TwoRoots(r1, r2) ==
  /\ modified_members = {}
  /\ r1 # r2
  /\ RootIds(first) = {r1, r2}
  /\ {r1, r2} \subseteq NodeIds(second)
  /\ OldClosure(r1) \cap OldClosure(r2) = {}
  /\ Reach({r1}, EdgesOf(second)) \cap Reach({r2}, EdgesOf(second)) = {}

\* The result is two trails, one from each root, and both paths.
TwoTrails(r1, r2) ==
  /\ Len(result) = 2
  /\ Cardinality(TrailsFrom(r1)) = 1
  /\ Cardinality(TrailsFrom(r2)) = 1
  /\ {MemberPath(r1), MemberPath(r2)} \subseteq changed_paths

(* C7 as stated: two roots with disjoint closures, each with one changed   *)
(* dependency, give exactly two trails, one per root, and both paths.      *)
C7_Original ==
  \A r1, r2 \in MemberIds :
    (Done /\ TwoRoots(r1, r2)
       /\ Cardinality(ChangedNames(r1)) = 1 /\ Cardinality(ChangedNames(r2)) = 1)
      => TwoTrails(r1, r2)

\* Below the root exactly one dependency edge was added or removed, or lost
\* its target, at a node with one dependency path from the root.
OneChangedEdge(id) ==
  /\ Cardinality(ChangedEdges(id) \cup GoneEdges(id)) = 1
  /\ \A e \in ChangedEdges(id) \cup GoneEdges(id) : NumPaths(id, e[1]) = 1

(* C7, amended. Two roots with disjoint closures, each with exactly one    *)
(* dependency edge added or removed (or left without its node) at a node   *)
(* with a single dependency path from the root, give exactly two trails,   *)
(* one per root, and both paths. A dependency replaced by another version  *)
(* is one removed and one added edge and gives two trails.                 *)
C7_IndependentRoots ==
  \A r1, r2 \in MemberIds :
    (Done /\ TwoRoots(r1, r2) /\ OneChangedEdge(r1) /\ OneChangedEdge(r2))
      => TwoTrails(r1, r2)

\* Two roots, each with one changed edge, one of them below the root.
C7_Witness ==
  \E r1, r2 \in MemberIds :
    /\ Done /\ TwoRoots(r1, r2) /\ OneChangedEdge(r1) /\ OneChangedEdge(r2)
    /\ Acyclic(first)
    /\ Cardinality(EdgesOf(first)) = MaxEdges

\* Root r depends on x in old, new has r and has no node for x, and r is no
\* modified member.
DependencyGone(r, x) ==
  /\ r[1] \notin modified_members
  /\ x \notin NodeIds(second)
  /\ x \in Deps(first, r)
  /\ r \in RootIds(first) \cap NodeIds(second)

(* C8 as stated: when root A depends on X in old and new has no node for   *)
(* X, diff_resolve does not panic and returns a result with the trail      *)
(* [A, X], whether or not new A still lists X.                             *)
C8_Original ==
  (pc \in {"panic", "done"}) =>
    \A r, x \in Ids :
      DependencyGone(r, x)
        => /\ pc # "panic"
           /\ Done => <<strip_source(r), strip_source(x)>> \in Trails

(* C8, amended. When root A depends on X in old, new has no node for X and *)
(* A's other dependencies are the same in old and new, diff_resolve does   *)
(* not panic and the result it returns has the trail [A, X], whether or    *)
(* not new A still lists X.                                                *)
C8_NodeRemoved ==
  (pc \in {"panic", "done"}) =>
    \A r, x \in Ids :
      (DependencyGone(r, x) /\ Deps(first, r) \ {x} = Deps(second, r) \ {x})
        => /\ pc # "panic"
           /\ Done => <<strip_source(r), strip_source(x)>> \in Trails

\* diff_resolve returned where new A still lists X next to another
\* dependency, and X has no node in new.
C8_Witness ==
  \E r, x \in Ids :
    /\ Done /\ DependencyGone(r, x)
    /\ Deps(first, r) = Deps(second, r)
    /\ Cardinality(Deps(first, r)) = 2
    /\ <<strip_source(r), strip_source(x)>> \in Trails

(* C9. Every trail is non-empty and starts with the (name, version) of a   *)
(* workspace member of old.                                                *)
C9_TrailStartsAtRoot ==
  \A i \in 1..Len(result) :
    Len(result[i]) >= 1 /\ result[i][1] \in Roots(first)

\* diff_resolve returned several trails, one of them three ids long.
C9_Witness ==
  /\ Done
  /\ Len(result) >= 2
  /\ \E i \in 1..Len(result) : Len(result[i]) = 3

(* C10. In every trail each element after the first is the stripped id of  *)
(* a dependency, in old, of the node before it; the last element may be a  *)
(* dependency of that node in new instead.                                 *)
C10_TrailFollowsEdges ==
  \A t \in Trails : \A i \in 2..Len(t) :
    \E n, d \in Ids :
      /\ strip_source(n) = t[i - 1]
      /\ strip_source(d) = t[i]
      /\ \/ d \in Deps(first, n)
         \/ i = Len(t) /\ d \in Deps(second, n)

\* A trail of three ids whose last id is a dependency only new lists.
C10_Witness ==
  /\ Done
  /\ \E t \in Trails : \E n, d \in Ids :
       /\ Len(t) = 3
       /\ strip_source(n) = t[2] /\ strip_source(d) = t[3]
       /\ d \in Deps(second, n) \ Deps(first, n)

\* The workspace members of old whose name is the name of the first element
\* of some trail.
ImplicatedMembers ==
  {wm \in Members(first) : \E i \in 1..Len(result) : first_word(result[i][1]) = wm.name}

(* C11. The affected paths diff_resolve returns are exactly the paths of   *)
(* the workspace members of old whose name is the name of the first        *)
(* element of some trail, also when two members have the same name.        *)
C11_AffectedPaths ==
  Done => changed_paths = {url_path(wm.url) : wm \in ImplicatedMembers}

\* diff_resolve returned or panicked.
Terminated == pc \in {"done", "panic"}

(* C12. Whenever the dependency relation of old is acyclic, diff_resolve   *)
(* terminates (it returns or panics; it does not recurse without end),     *)
(* for any new snapshot, cyclic ones included, and any modified members.   *)
C12_Terminates == Acyclic(first) ~> Terminated

\* diff_resolve returned on an acyclic old and a cyclic new snapshot, after
\* it recursed below a root.
C12_Witness ==
  /\ Done /\ Acyclic(first) /\ ~Acyclic(second)
  /\ \E i \in 1..Len(result) : Len(result[i]) = 3

\* Some workspace member of old has no package in old.
MissingRoot ==
  \E wm \in Members(first) :
    \A p \in first.packages : <<p.name, p.version>> # <<wm.name, wm.version>>

(* C13. If a workspace member of old has no package in the old snapshot,   *)
(* diff_resolve fails: it never returns, and it pushes no trail for the    *)
(* other roots.                                                            *)
C13_MissingRootFails == MissingRoot => (~Done /\ result = <<>>)

(* C14. The name of the first element of every trail is the name of a     *)
(* workspace member of old, in every state of every run on any arguments,  *)
(* so the path resolver never panics with "Did not find root".             *)
C14_RootNameFound ==
  /\ [](\A i \in 1..Len(result) : FindMember(first, first_word(result[i][1])) # 0)
  /\ [][ResolvePaths => pc' = "done"]_vars

\* The path resolver ran over the trails of a workspace with two members of
\* one name and a member without a package.
C14_Witness ==
  /\ Done /\ MissingRoot
  /\ Len(first.workspace_members) = 2
  /\ first.workspace_members[1].name = first.workspace_members[2].name
  /\ Len(result) >= 2

\* Some name of modified_members is no workspace member's of old.
UnknownModifiedMember ==
  \E name \in modified_members : \A wm \in Members(first) : wm.name # name

(* C15. If modified_members has a name that no workspace member of old     *)
(* has, diff_resolve panics before it traces any root: no diff() call is   *)
(* made, and no trail and no path is produced.                             *)
C15_UnknownMemberPanics ==
  UnknownModifiedMember
    => /\ pc \in {"start", "panic"}
       /\ last_id = NoId
       /\ result = <<>> /\ changed_paths = {}

\* diff_resolve panicked on an unknown name next to a known one, with roots
\* whose dependencies differ.
C15_Witness ==
  /\ pc = "panic" /\ UnknownModifiedMember
  /\ Cardinality(modified_members) = 2
  /\ \E id \in RootIds(first) : id \in NodeIds(second) /\ Deps(first, id) # Deps(second, id)

\* The id is a modified member's, or new has no node for it.
StopId(id) == strip_source(id) \in modified_member_ids \/ id \notin NodeIds(second)

\* The ids of the universe a trail element stands for.
IdsOf(e) == {id \in Ids : strip_source(id) = e}

(* C17. A visit of an id that is a modified member's or has no node in new *)
(* pushes exactly one trail, the trail ending at that id, compares no      *)
(* dependency lists (it cannot panic) and opens no loop over dependencies; *)
(* no loop is ever open at such an id, and no trail has such an id before  *)
(* its last position.                                                      *)
C17_ForcedStop ==
  /\ [][(Call /\ StopId(last_id'))
          => /\ Pushed = <<VisitTrail>>
             /\ Len(stack') <= Len(stack)
             /\ trail' = trail /\ pc' = pc]_vars
  /\ [](\A i \in 1..Len(stack) : ~StopId(stack[i].id))
  /\ [](pc # "start" =>
          \A t \in Trails : \A i \in 1..(Len(t) - 1) : \A id \in IdsOf(t[i]) : ~StopId(id))

\* diff_resolve returned after it met, below a root, a modified member whose
\* dependency lists differ, and pushed only the trail ending at the member.
C17_Witness ==
  /\ Done /\ Len(result) = 2
  /\ \E r, m \in RootIds(first) :
       /\ r # m
       /\ modified_member_ids = {strip_source(m)}
       /\ m \in NodeIds(second) /\ Deps(first, m) # Deps(second, m)
       /\ <<strip_source(r), strip_source(m)>> \in Trails

\* The call of this step visits a node whose dependency sets differ.
VisitsChangedNode ==
  /\ VisitsComparedNode
  /\ Deps(first, last_id') # Deps(second, last_id')

(* C18. A visit of a node whose old and new dependency sets differ pushes  *)
(* only the trails of the added and removed dependencies and opens no loop *)
(* over the node's dependencies, those in both sets included; so in every  *)
(* trail all nodes before the last two have the same dependency sets in    *)
(* old and new.                                                            *)
C18_StopAtFirstDivergence ==
  /\ [][VisitsChangedNode
          => /\ Len(stack') <= Len(stack)
             /\ trail' = trail /\ pc' = pc
             /\ \A i \in DOMAIN Pushed :
                  \E dep \in Ids :
                    /\ Pushed[i] = Append(VisitTrail, strip_source(dep))
                    /\ (dep \in Deps(first, last_id')) # (dep \in Deps(second, last_id'))]_vars
  /\ [](\A t \in Trails : \A i \in 1..(Len(t) - 2) : \A id \in IdsOf(t[i]) :
          Deps(first, id) = Deps(second, id))

\* diff_resolve returned one trail for a root with an added or removed
\* dependency and a kept dependency whose own dependencies changed.
C18_Witness ==
  /\ Done /\ modified_members = {} /\ Len(result) = 1
  /\ \E r \in RootIds(first) \cap NodeIds(second) :
       /\ Deps(first, r) # Deps(second, r)
       /\ \E b \in Deps(first, r) \cap Deps(second, r) \cap NodeIds(second) :
            Deps(first, b) # Deps(second, b)

\* The node is in both snapshots, is no modified member and has the same
\* dependency sets in old and new.
Matching(id) ==
  /\ ~StopId(id)
  /\ id \in NodeIds(first)
  /\ Deps(first, id) = Deps(second, id)

\* The dependency paths of old that start at a path of P and leave matching
\* nodes only, without repeating a node.
RECURSIVE Walks(_)
Walks(P) ==
  LET Q == P \cup UNION {{Append(p, d) :
                            d \in {x \in Deps(first, Last(p)) :
                                     \A i \in 1..Len(p) : p[i] # x}} :
                          p \in {q \in P : Matching(Last(q))}}
  IN IF Q = P THEN P ELSE Walks(Q)

\* The trail of a path of ids.
TrailOf(p) == [i \in 1..Len(p) |-> strip_source(p[i])]

\* The dependencies of a compared node that only one snapshot lists.
ChangedDeps(id) ==
  IF StopId(id) \/ id \notin NodeIds(first)
    THEN {}
    ELSE (Deps(first, id) \ Deps(second, id)) \cup (Deps(second, id) \ Deps(first, id))

\* How many trails of the result satisfy Q.
Count(Q(_)) == Cardinality({i \in 1..Len(result) : Q(result[i])})

\* The trail is a dependency path of old from the root r over matching
\* nodes to the node n.
ReachesNode(t, r, n) == \E q \in Walks({<<r>>}) : Last(q) = n /\ t = TrailOf(q)

\* The trail is such a path to n followed by the dependency d.
ReachesEdge(t, r, n, d) ==
  \E q \in Walks({<<r>>}) : Last(q) = n /\ t = Append(TrailOf(q), strip_source(d))

(* C19 as stated: for every root and every divergence point reachable from *)
(* it over matching nodes (a modified or missing node, or an added or      *)
(* removed edge) the result has exactly one trail from the root ending at  *)
(* the divergence point, also when several paths of old lead to it.        *)
C19_Original ==
  (Done /\ Acyclic(first)) =>
    \A r \in RootIds(first) : \A p \in Walks({<<r>>}) :
      /\ StopId(Last(p)) =>
           LET AtPoint(t) == ReachesNode(t, r, Last(p))
           IN Count(AtPoint) = 1
      /\ \A d \in ChangedDeps(Last(p)) :
           LET AtEdge(t) == ReachesEdge(t, r, Last(p), d)
           IN Count(AtEdge) = 1

(* C19, amended. For every root and every dependency path of old from the  *)
(* root over matching nodes to a divergence point, the result has exactly  *)
(* one trail that is this path: the path itself when it ends at a modified *)
(* or missing node, the path plus the dependency for every added or        *)
(* removed dependency of its last node. A divergence point that several    *)
(* paths lead to has one trail per path.                                   *)
C19_OncePerPath ==
  (Done /\ Acyclic(first)) =>
    \A r \in RootIds(first) : \A p \in Walks({<<r>>}) :
      /\ StopId(Last(p)) =>
           LET IsPath(t) == t = TrailOf(p)
           IN Count(IsPath) = 1
      /\ \A d \in ChangedDeps(Last(p)) :
           LET IsPathEdge(t) == t = Append(TrailOf(p), strip_source(d))
           IN Count(IsPathEdge) = 1

\* diff_resolve returned two trails from one root that end at the same
\* missing node, over two dependency paths of old.
C19_Witness ==
  /\ Done /\ Acyclic(first) /\ modified_members = {}
  /\ \E i, j \in 1..Len(result) :
       /\ result[i][1] = result[j][1]
       /\ Last(result[i]) = Last(result[j])
       /\ Len(result[i]) = 2 /\ Len(result[j]) = 3
       /\ \A id \in IdsOf(Last(result[i])) : id \notin NodeIds(second)

\* The sum of f over the set S.
RECURSIVE Sum(_, _)
Sum(f, S) ==
  IF S = {} THEN 0
  ELSE LET x == CHOOSE y \in S : TRUE IN f[x] + Sum(f, S \ {x})

\* How many times the trace of id under the trail t emits the trail
\* `target`, counted without an order of the dependencies.
RECURSIVE Emits(_, _, _)
Emits(id, t, target) ==
  LET tt == Append(t, strip_source(id))
  IN IF StopId(id) THEN (IF tt = target THEN 1 ELSE 0)
     ELSE IF ChangedDeps(id) # {}
       THEN Cardinality({d \in ChangedDeps(id) : Append(tt, strip_source(d)) = target})
     ELSE Sum([d \in Deps(first, id) |-> Emits(d, tt, target)], Deps(first, id))

\* How many trails the trace of id emits.
RECURSIVE NumEmitted(_)
NumEmitted(id) ==
  IF StopId(id) THEN 1
  ELSE IF ChangedDeps(id) # {} THEN Cardinality(ChangedDeps(id))
  ELSE Sum([d \in Deps(first, id) |-> NumEmitted(d)], Deps(first, id))

(* C20. The multiset of trails and the set of affected paths diff_resolve  *)
(* returns are a function of (old, new, forced): whatever the order of the *)
(* roots and of each dependency list, every trail occurs as often as the   *)
(* order-free count says, there are as many trails as it says, and the     *)
(* paths are those of the roots that emit a trail.                         *)
C20_OrderIndependent ==
  Done =>
    /\ \A t \in Trails :
         LET Is(u) == u = t
         IN Count(Is) = Sum([r \in RootIds(first) |-> Emits(r, <<>>, t)], RootIds(first))
    /\ Len(result) = Sum([r \in RootIds(first) |-> NumEmitted(r)], RootIds(first))
    /\ changed_paths =
         UNION {PathOf(first, <<strip_source(r)>>) :
                  r \in {x \in RootIds(first) : NumEmitted(x) > 0}}

\* diff_resolve returned three or more trails, those of the second member
\* before those of the first.
C20_Witness ==
  /\ Done /\ Len(result) >= 3
  /\ result[1][1] = strip_source(B)
  /\ result[Len(result)][1] = strip_source(A)

\* update_lock found that Cargo.lock has changes.
LockChanged == \E i \in 1..Len(io) : io[i] = Ran(GitDiffLock, "Some(1)")

\* The user declined the confirmation of update_lock.
LockDeclined == \E i \in 1..Len(io) : io[i] = Ran(ConfirmLock, "no")

\* run() returned the error and ran no git add, commit, push or gh pr create.
AbortedBeforeAdd ==
  /\ step = "Err"
  /\ \A i \in 1..Len(io) : io[i].cmd \notin {GitAddCmd, GitCommit, GitPush, GhPrCreate}

(* C16. When Cargo.lock has changes after the lock update, the run is not  *)
(* interactive and --allow-lock-change was not given, update_lock returns  *)
(* an error and the run makes no git add, commit, push or PR; when the run *)
(* is interactive and the user declines the confirmation, the same.        *)
C16_LockGate ==
  /\ (LockChanged /\ ~is_interactive /\ ~matches.allow_lock_change) => AbortedBeforeAdd
  /\ LockDeclined => AbortedBeforeAdd

\* A run without terminal and without --allow-lock-change that updated a
\* member's lock entries, found Cargo.lock changed and returned the error.
C16_Witness ==
  /\ LockChanged /\ ~is_interactive /\ ~matches.allow_lock_change
  /\ step = "Err"
  /\ \E i \in 1..Len(io) : io[i] = Ran(CargoUpdate, "Some(0)")
  /\ matches.create_pr /\ matches.commit_title = "Some"

\* The call of this step follows a dependency edge of old to an id that old
\* has no node for.
FollowsDanglingEdge == DiffDep /\ last_id' \notin NodeIds(first)

(* C21. Whenever the trace follows a dependency edge of old whose target   *)
(* has no node in old, diff_resolve ends with an error at that call: it    *)
(* panics, pushes no trail for the edge and returns no result.             *)
C21_DanglingEdgeFatal ==
  [][FollowsDanglingEdge => (pc' = "panic" /\ result' = result)]_vars

\* Some root of old reaches, over matching nodes, a matching node with a
\* dependency that is already on the path: a cycle of old all of whose
\* nodes are in new, are not modified and have the same dependency sets.
MatchingCycleReachable ==
  /\ pc # "start"
  /\ \E r \in RootIds(first) : \E p \in Walks({<<r>>}) :
       /\ Matching(Last(p))
       /\ \E d \in Deps(first, Last(p)) : \E i \in 1..Len(p) : p[i] = d

\* The recursion has used up the stack: more diff() frames than the bound
\* are open, and the trail names some package twice.
StackExhausted ==
  /\ pc = "overflow"
  /\ Len(trail) = MaxDepth + 1
  /\ \E i, j \in 1..Len(trail) : i # j /\ trail[i] = trail[j]

(* C22. If a cycle of old is reachable from a root through nodes that are  *)
(* in new, are not modified and have the same dependency sets in old and   *)
(* new, diff_resolve never returns and never panics in its own code; the   *)
(* recursion goes round the cycle, the trail growing, until it is deeper   *)
(* than any bound on the stack.                                            *)
C22_NoCycleGuard ==
  /\ [](MatchingCycleReachable => (~Done /\ pc # "panic"))
  /\ [](pc = "overflow" => StackExhausted)
  /\ MatchingCycleReachable ~> StackExhausted

\* The recursion exhausted the stack on a cycle through the first member
\* after the trace of the other member had pushed a trail.
C22_Witness ==
  /\ MatchingCycleReachable /\ StackExhausted
  /\ Len(result) >= 1
  /\ trail[1] = strip_source(A)

\* The trail element stands for nodes that new has and that are no modified
\* members.
InNewNotForced(e) == \A id \in IdsOf(e) : ~StopId(id)

\* The trail element stands for nodes with the same dependency sets in old
\* and new.
SameDeps(e) == \A id \in IdsOf(e) : Deps(first, id) = Deps(second, id)

(* C23. In every trail of the result every node before the last is in new  *)
(* and is not forced, and every node before the last two has the same      *)
(* dependency sets in old and new; the trail under construction, which     *)
(* every pushed trail extends, has only nodes that are in new and not      *)
(* forced, all but its last with the same dependency sets.                 *)
C23_UnchangedPrefix ==
  /\ \A t \in Trails : \A i \in 1..Len(t) :
       /\ i < Len(t) => InNewNotForced(t[i])
       /\ i < Len(t) - 1 => SameDeps(t[i])
  /\ \A i \in 1..Len(trail) :
       /\ InNewNotForced(trail[i])
       /\ i < Len(trail) => SameDeps(trail[i])

\* diff_resolve returned a trail of three nodes that ends at an added or
\* removed dependency of its second node, and a trail that ends at a modified
\* member below a root.
C23_Witness ==
  /\ Done
  /\ \E t \in Trails :
       /\ Len(t) = 3
       /\ ~SameDeps(t[2]) /\ InNewNotForced(t[2])
  /\ \E t \in Trails : Len(t) >= 2 /\ Last(t) \in modified_member_ids

\* The package id is a modified member's.
Forced(id) == strip_source(id) \in modified_member_ids

(* C24. If a modified workspace member m is reachable in old from another  *)
(* root R over nodes that are in new, are not modified and have the same   *)
(* dependency sets, the result diff_resolve returns has, for every such    *)
(* path, the trail from R along the path to m, and R's path is affected;   *)
(* also when old and new are the same.                                     *)
C24_ForcedDependency ==
  Done =>
    \A R \in RootIds(first) : \A m \in MemberIds :
      (R # m /\ Forced(m)) =>
        \A p \in Walks({<<R>>}) :
          Last(p) = m =>
            /\ TrailOf(p) \in Trails
            /\ MemberPath(R) \in changed_paths

\* diff_resolve returned on two equal snapshots in which a root reaches the
\* modified member over a node between them.
C24_Witness ==
  /\ Done /\ second = first
  /\ \E R \in RootIds(first) : \E m \in MemberIds :
       /\ R # m /\ Forced(m) /\ ~Forced(R)
       /\ \E p \in Walks({<<R>>}) : Last(p) = m /\ Len(p) = 3
       /\ changed_paths = {MemberPath(R), MemberPath(m)}

\* The second call's arguments are the first call's, swapped, and meet the
\* conditions: the same node ids, packages and workspace members, no cycle
\* in either snapshot, nothing modified.
Swappable ==
  /\ earlier.called
  /\ NodeIds(first) = NodeIds(second)
  /\ first.packages = second.packages
  /\ first.workspace_members = second.workspace_members
  /\ Acyclic(first) /\ Acyclic(second)
  /\ modified_members = {}

\* How often the trail t occurs in the sequence of trails r.
Occurs(t, r) == Cardinality({i \in 1..Len(r) : r[i] = t})

(* C25. For two snapshots with the same node ids, packages and workspace   *)
(* members, no cycle and nothing modified, diff_resolve(new, old, {})       *)
(* returns (it does not panic or recurse without end) and returns the same *)
(* multiset of trails and the same affected paths as                       *)
(* diff_resolve(old, new, {}).                                             *)
C25_SwapSymmetry ==
  Swappable =>
    /\ pc \notin {"panic", "overflow"}
    /\ Done =>
         /\ \A t \in Trails \cup {earlier.result[i] : i \in 1..Len(earlier.result)} :
              Occurs(t, result) = Occurs(t, earlier.result)
         /\ changed_paths = earlier.changed_paths

\* Both calls returned, on two different snapshots, the same two or more
\* trails in different orders, one of them below a root's dependency.
C25_Witness ==
  /\ Done /\ Swappable
  /\ first # second
  /\ Len(result) >= 2
  /\ result # earlier.result
  /\ \E i \in 1..Len(result) : Len(result[i]) = 3

\* The entry of io is a command that ended as its step needs, or a prompt
\* the user agreed to.
Succeeded(e) ==
  IF e.cmd \in {ConfirmLock, ConfirmCommit, ConfirmPr} THEN e.out = "yes"
  ELSE IF e.cmd \in {GitDiffManifest, GitDiffLock} THEN e.out \in {"Some(0)", "Some(1)"}
  ELSE e.out = "Some(0)"

\* git push ran and succeeded.
PushSucceeded == \E i \in 1..Len(io) : io[i] = Ran(GitPush, "Some(0)")

\* git commit runs only with a commit title and after the lock update, git
\* add and the commit message succeeded, in this order, and nothing before
\* it failed; git push runs only right after a git commit that succeeded;
\* gh pr create runs only after a git push that succeeded.
PipelineOrder ==
  \A i \in 1..Len(io) :
    /\ io[i].cmd = GitCommit =>
         /\ commit_title = "Some"
         /\ \A j \in 1..(i - 1) : Succeeded(io[j])
         /\ \E a, b, c \in 1..(i - 1) :
              /\ a < b /\ b < c
              /\ io[a].cmd = GitDiffLock /\ io[b].cmd = GitAddCmd /\ io[c].cmd = GitRevParse
    /\ io[i].cmd = GitPush => (i > 1 /\ io[i - 1] = Ran(GitCommit, "Some(0)"))
    /\ io[i].cmd = GhPrCreate =>
         /\ commit_title = "Some"
         /\ \E j \in 1..(i - 1) : io[j] = Ran(GitPush, "Some(0)")

(* C26 as stated: the order of the pipeline, and whenever create_pr is     *)
(* reached without a git push that succeeded it bails, so that a run with  *)
(* --create-pr returns Ok only after the push.                             *)
C26_Original ==
  /\ PipelineOrder
  /\ (matches.create_pr /\ step = "Ok") => PushSucceeded

(* C26, amended. git commit is executed only if every earlier step         *)
(* returned Ok and a commit title is available; git push only after that   *)
(* git commit succeeded; gh pr create only after git push succeeded in the *)
(* same run. When create_pr is reached without such a push, commit_title   *)
(* is unset and create_pr bails, unless the run is interactive and the     *)
(* user declines the confirmation of the PR: then create_pr returns Ok     *)
(* and runs no gh.                                                         *)
C26_PipelineOrder ==
  /\ PipelineOrder
  /\ (~PushSucceeded /\ step \in {"create_pr", "Ok"}) => commit_title = "None"
  /\ (matches.create_pr /\ step = "Ok" /\ ~PushSucceeded) =>
       /\ is_interactive
       /\ io[Len(io)] = Ran(ConfirmPr, "no")

\* An interactive run that ran the tests, committed, pushed, created the
\* PR and approved it.
C26_Witness ==
  /\ step = "Ok" /\ is_interactive /\ matches.self_approve
  /\ \E i, j, k \in 1..Len(io) :
       /\ io[i] = Ran(XPyTest, "Some(0)")
       /\ io[j] = Ran(GitPush, "Some(0)")
       /\ io[k] = Ran(GhPrCreate, "Some(0)")
  /\ io[Len(io)] = Ran(GhPrComment, "Some(0)")

\* The Runner is as Runner::new made it when call i is made: status() was
\* not called on it before.
Fresh(i) == \A j \in 1..(i - 1) : calls[j].method # "status"

(* C27. A call of run, capture_stdout or status returns Err when the child *)
(* has no exit code, when wants_success is set and the code is not 0, and  *)
(* when the code is neither 0 nor 1; run and capture_stdout on a fresh     *)
(* Runner return Ok exactly for the exit code 0, and status, which clears  *)
(* wants_success, returns Ok exactly for the exit codes 0 and 1.           *)
C27_ExitStatusPolicy ==
  \A i \in 1..Len(calls) :
    LET c == calls[i] IN
    /\ c.result \in {"Ok", "Err"}
    /\ c.out = "None" => c.result = "Err"
    /\ c.out \notin {"Some(0)", "Some(1)"} => c.result = "Err"
    /\ (c.method \in {"run", "capture_stdout"} /\ Fresh(i))
         => (c.result = "Ok" <=> c.out = "Some(0)")
    /\ c.method = "status" => (c.result = "Ok" <=> c.out \in {"Some(0)", "Some(1)"})
    /\ (i = Len(calls) /\ runner.wants_success /\ c.out # "Some(0)") => c.result = "Err"

\* run on a fresh Runner failed on the exit code 1, and then status on the
\* same Runner accepted the exit code 1.
C27_Witness ==
  /\ Len(calls) >= 2
  /\ calls[1] = Called("run", "Some(1)", "Err")
  /\ calls[2] = Called("status", "Some(1)", "Ok")
  /\ ~runner.wants_success

====
